---- MODULE Spec2Model ----
(***************************************************************************)
(* Model of pyrate_limiter's Limiter (src/pyrate_limiter/limiter.py):      *)
(* try_acquire, handle_bucket_put, delay_or_raise and the decorator        *)
(* wrapper, run by several concurrent callers against one Router and its   *)
(* Bucket.  The Bucket, the Router, the Time Source and                    *)
(* get_bucket_availability live in pyrate_limiter.abstracts, which is not  *)
(* part of the sources at hand; they are modelled from the design text.    *)
(***************************************************************************)
EXTENDS Integers, Sequences, FiniteSets, TLC

\* ------------------------------------------------------------------ bounds
\* the last time at which the Time Source still advances for a new call
MaxNow == 50
\* the largest weight a caller asks for
MaxWeight == 2
\* the most weight units the bucket holds when the Limiter is built
MaxPrior == 2

\* the concurrent callers, each making one call
Callers == {1, 2}
\* the Time Source advances in steps of this size
Ticks == {50}
\* the weights callers ask for
Weights == -1..MaxWeight
\* rate limits of the one registered bucket, shortest interval first
Rates == << [limit |-> 2, interval |-> 50], [limit |-> 3, interval |-> 100] >>
\* values of Limiter.delay the model is run with (None = unset)
\* an optional value: None, or Some(v) holding v
None == << >>
Some(v) == <<v>>
The(o) == o[1]
Delays == {None, Some(100)}
\* the rate-limit names callers ask for; the Router has a bucket for the
\* Registered ones only
Names == {"x"}
Registered == {"x"}
AllNames == {"x", "y"}
\* bucket instances: the one the Router starts with, the one a flush puts in
\* its place
BucketIds == {"b0", "b1"}

\* the fixed margin added to the bucket availability
Margin == 50

VARIABLES
    raise_when_fail,  \* Limiter.raise_when_fail
    delay,            \* Limiter.delay
    now,              \* the Time Source
    router,           \* BucketFactory: name -> bucket instance
    bucket,           \* bucket instance -> [items, failing_rate]
    call              \* per caller: the frame of its wrapper/try_acquire call

vars == <<raise_when_fail, delay, now, router, bucket, call>>

\* ------------------------------------------------------------ collaborators
\* RateItem(name, weight, timestamp)
RateItem(name, weight, timestamp) ==
    [name |-> name, weight |-> weight, timestamp |-> timestamp]

\* number of admitted weight units whose timestamp lies after ts - interval
CountInWindow(items, interval, ts) ==
    Cardinality({i \in DOMAIN items : items[i].timestamp > ts - interval})

RateAllows(items, rate, ts, weight) ==
    CountInWindow(items, rate.interval, ts) + weight <= rate.limit

\* index of the first rate the item would violate, 0 when it fits all of them
FirstFailing(items, ts, weight) ==
    IF \A r \in DOMAIN Rates : RateAllows(items, Rates[r], ts, weight)
    THEN 0
    ELSE CHOOSE r \in DOMAIN Rates :
            /\ ~RateAllows(items, Rates[r], ts, weight)
            /\ \A q \in DOMAIN Rates :
                  ~RateAllows(items, Rates[q], ts, weight) => r <= q

RECURSIVE Copies(_, _)
Copies(entry, n) == IF n <= 0 THEN << >> ELSE <<entry>> \o Copies(entry, n - 1)

\* Bucket.put(item): all-or-nothing; a rejection records the violated rate
BucketPut(b, item, by) ==
    LET f == FirstFailing(b.items, item.timestamp, item.weight)
    IN  IF f = 0
        THEN [accepted |-> TRUE,
              bucket |-> [b EXCEPT !.items =
                  @ \o Copies([timestamp |-> item.timestamp, by |-> by], item.weight)]]
        ELSE [accepted |-> FALSE,
              bucket |-> [b EXCEPT !.failing_rate = Some(Rates[f])]]

\* the rate a put of the item into b violates (None: it is accepted)
ViolatedBy(b, item) ==
    LET f == FirstFailing(b.items, item.timestamp, item.weight)
    IN  IF f = 0 THEN None ELSE Some(Rates[f])

\* get_bucket_availability(bucket, item): the waits after which the bucket
\* would accept the item; the least one when the item can ever fit, and an
\* unspecified one of the window expiries when it never fits
Expiries(b, item) ==
    {0} \cup {d \in {b.items[i].timestamp + Rates[r].interval - item.timestamp :
                        i \in DOMAIN b.items, r \in DOMAIN Rates} : d >= 0}

get_bucket_availability(b, item) ==
    LET ok == {d \in Expiries(b, item) :
                  FirstFailing(b.items, item.timestamp + d, item.weight) = 0}
    IN  IF ok = {} THEN Expiries(b, item)
        ELSE {d \in ok : \A e \in ok : d <= e}

\* ------------------------------------------------------------------ state
\* what the bucket handed to the Limiter may already hold: up to MaxPrior
\* weight units admitted at time 0 by earlier users (caller 0), within the rates
PriorItems ==
    {its \in {Copies([timestamp |-> 0, by |-> 0], n) : n \in 0..MaxPrior} :
        \A r \in DOMAIN Rates : Len(its) <= Rates[r].limit}

\* the frame of one wrapper/try_acquire call: the code's locals (item, bucket,
\* delay as `wait`), where the call stands (pc, wakeAt, sleepKind), what it
\* handed back (deferred: the result was an awaitable; outcome, err;
\* funcCalled), putAsync (the call runs inside _put_async: the first put
\* answered with an awaitable) and a record of what it did (args, stamped:
\* the timestamp wrap_item gave the item, the collaborator calls it made and
\* their answers, ownRate: the rate its last rejected put violated,
\* disturbed: another call put into the bucket between this call's rejected
\* put and its retry, failed: the collaborator call of it that raised)
IdleCall ==
    [pc |-> "idle", args |-> None, item |-> None, bucket |-> None, wait |-> None,
     wakeAt |-> 0, sleepKind |-> "none", deferred |-> FALSE, putAsync |-> FALSE,
     outcome |-> "none", err |-> None, funcCalled |-> FALSE,
     nwrap |-> 0, nget |-> 0, nput |-> 0, nsleep |-> 0, stamped |-> None,
     answers |-> << >>, ownRate |-> None, disturbed |-> FALSE,
     failed |-> "none"]

Init ==
    /\ raise_when_fail \in BOOLEAN
    /\ delay \in Delays
    /\ now = 0
    /\ router = [n \in AllNames |-> IF n \in Registered THEN Some("b0") ELSE None]
    /\ \E prior \in PriorItems :
          bucket = [b \in BucketIds |->
                      [items |-> IF b = "b0" THEN prior ELSE << >>,
                       failing_rate |-> None]]
    /\ call = [c \in Callers |-> IdleCall]

\* ---------------------------------------------------------------- Limiter
\* wrapper, after try_acquire handed back a boolean (at once or through the
\* awaited result): it goes on to the wrapped callable
wrapper_return(f, value) ==
    [f EXCEPT !.pc = "done",
              !.outcome = IF value THEN "true" ELSE "false",
              !.funcCalled = TRUE]

\* an exception leaves try_acquire and the wrapper
raised(f, kind, err) ==
    [f EXCEPT !.pc = "done", !.outcome = kind, !.err = err]

\* raise BucketFullException(item.name, bucket.failing_rate), behind its assert
raise_bucket_full(f, b) ==
    IF b.failing_rate = None
    THEN raised(f, "AssertionError", None)
    ELSE raised(f, "BucketFullException",
                Some([name |-> The(f.item).name, rate |-> The(b.failing_rate)]))

\* mutants of raise_or_false: the policy flag read the wrong way round; the
\* error raised whatever the policy
raise_or_false_inverted(f, b) ==
    IF ~raise_when_fail THEN raise_bucket_full(f, b) ELSE wrapper_return(f, FALSE)

raise_or_false_always_raise(f, b) == raise_bucket_full(f, b)

\* the raise/return-false policy of delay_or_raise
raise_or_false(f, b) ==
    IF raise_when_fail THEN raise_bucket_full(f, b) ELSE wrapper_return(f, FALSE)

\* _handle_reacquire(re_acquire)
handle_reacquire_result(f, b, re_acquire) ==
    IF raise_when_fail /\ ~re_acquire
    THEN raise_bucket_full(f, b)
    ELSE wrapper_return(f, re_acquire)

\* mutant of sync_over_budget: a wait equal to the budget counts as over it
sync_over_budget_ge(d) == d >= The(delay)

\* the projected wait and the budget test, on the blocking path ...
sync_projected(avail) == avail + Margin
sync_over_budget(d) == d > The(delay)
\* ... and inside _handle_async
async_projected(avail) == avail + Margin
async_over_budget(d) == d > The(delay)

\* an awaitable that delay_or_raise hands to _put_async comes out of the one
\* await of try_acquire, and of the wrapper, as it is: the call ends with an
\* awaitable that nobody runs, and the wrapper goes on to the wrapped callable
unawaited(f) ==
    [f EXCEPT !.pc = "done", !.outcome = "awaitable", !.deferred = TRUE,
              !.funcCalled = TRUE]

\* mutant of handle_result: the put's answer is not looked at
handle_result_ignored(f, b, is_success) == wrapper_return(f, TRUE)

\* _handle_result(is_success) of handle_bucket_put: True, or on to
\* delay_or_raise, which ends at once where it reads nothing shared
handle_result(f, b, is_success) ==
    IF is_success THEN wrapper_return(f, TRUE)
    ELSE IF delay = None /\ ~raise_when_fail THEN raise_or_false(f, b)
    ELSE [f EXCEPT !.pc = "rejected"]

\* mutant of advance_timestamp: the retry carries the old timestamp
advance_timestamp_not(item, d) == item

\* item.timestamp += delay
advance_timestamp(item, d) == [item EXCEPT !.timestamp = @ + d]

\* mutant of routed: a name without a bucket falls back to the first bucket
routed_fallback(f) ==
    [f EXCEPT !.nget = @ + 1, !.pc = "put",
              !.bucket = IF router[The(f.item).name] = None THEN Some("b0")
                         ELSE router[The(f.item).name]]

\* bucket = self.bucket_factory.get(item) and the assert behind it
routed(f) ==
    LET g == [f EXCEPT !.nget = @ + 1]
    IN  IF router[The(f.item).name] = None
        THEN raised(g, "AssertionError", None)
        ELSE [g EXCEPT !.pc = "put", !.bucket = router[The(f.item).name]]

\* mutants of try_acquire_frame: a weightless item is stamped and put like any
\* other; the weight is not validated
try_acquire_frame_no_shortcut(f, name, weight, aw) ==
    LET g == [f EXCEPT !.args = Some([name |-> name, weight |-> weight])]
    IN  IF weight < 0 THEN raised(g, "AssertionError", None)
        ELSE routed([g EXCEPT !.item = Some(RateItem(name, weight, now)),
                              !.stamped = Some(now),
                              !.nwrap = @ + 1, !.deferred = aw])

try_acquire_frame_no_assert(f, name, weight, aw) ==
    LET g == [f EXCEPT !.args = Some([name |-> name, weight |-> weight])]
    IN  IF weight = 0 THEN wrapper_return(g, TRUE)
        ELSE routed([g EXCEPT !.item = Some(RateItem(name, weight, now)),
                              !.stamped = Some(now),
                              !.nwrap = @ + 1, !.deferred = aw])

\* try_acquire from its entry to Router.get, for the wrapper
try_acquire_frame(f, name, weight, aw) ==
    LET g == [f EXCEPT !.args = Some([name |-> name, weight |-> weight])]
    IN  IF weight < 0 THEN raised(g, "AssertionError", None)
        ELSE IF weight = 0 THEN wrapper_return(g, TRUE)
        ELSE routed([g EXCEPT !.item = Some(RateItem(name, weight, now)),
                              !.stamped = Some(now),
                              !.nwrap = @ + 1, !.deferred = aw])

\* callers other than c whose rejected item awaits its retry see c's put
Disturb(cl, c) ==
    [d \in Callers |->
        IF d # c /\ cl[d].pc \in {"rejected", "sleeping"}
        THEN [cl[d] EXCEPT !.disturbed = TRUE] ELSE cl[d]]

Bit(b) == IF b THEN 1 ELSE 0

\* wrapper(*args), mapping giving (name, weight), and try_acquire up to
\* Router.get; aw: wrap_item answers with an awaitable
try_acquire(c, name, weight, aw) ==
    /\ call[c].pc = "idle"
    /\ call' = [call EXCEPT ![c] = try_acquire_frame(@, name, weight, aw)]
    /\ UNCHANGED <<raise_when_fail, delay, now, router, bucket>>

\* handle_bucket_put: bucket.put(item) and _handle_result; aw: put answers
\* with an awaitable
handle_bucket_put(c, aw) ==
    LET f == call[c]
        r == BucketPut(bucket[The(f.bucket)], The(f.item), c)
        g == [f EXCEPT !.nput = @ + 1, !.deferred = @ \/ aw, !.putAsync = aw,
                       !.ownRate = ViolatedBy(bucket[The(f.bucket)], The(f.item)),
                       !.answers = Append(@, <<"put", Bit(r.accepted)>>)]
        h == handle_result(g, r.bucket, r.accepted)
    IN  /\ f.pc = "put"
        /\ bucket' = [bucket EXCEPT ![The(f.bucket)] = r.bucket]
        /\ call' = Disturb([call EXCEPT ![c] = h], c)
        /\ UNCHANGED <<raise_when_fail, delay, now, router>>

\* delay_or_raise up to the start of the wait; aw: get_bucket_availability
\* answers with an awaitable.  Called from _put_async, the coroutine
\* _handle_async() it then returns is handed on without being awaited
delay_or_raise(c, aw) ==
    LET f == call[c]
        b == bucket[The(f.bucket)]
    IN  /\ f.pc = "rejected"
        /\ IF delay = None
           THEN call' = [call EXCEPT ![c] = raise_or_false(f, b)]
           ELSE IF aw /\ f.putAsync
           THEN call' = [call EXCEPT ![c] = unawaited(f)]
           ELSE \E avail \in get_bucket_availability(b, The(f.item)) :
                  LET d == IF aw THEN async_projected(avail)
                                 ELSE sync_projected(avail)
                      over == IF aw THEN async_over_budget(d)
                                    ELSE sync_over_budget(d)
                      g == [f EXCEPT !.deferred = @ \/ aw,
                                     !.answers = Append(@, <<"availability", avail>>)]
                  IN  call' = [call EXCEPT ![c] =
                        IF over THEN raise_or_false(g, b)
                        ELSE [g EXCEPT !.pc = "sleeping",
                                       !.wait = Some(d),
                                       !.wakeAt = now + d,
                                       !.sleepKind = IF aw THEN "timer" ELSE "thread",
                                       !.nsleep = @ + 1]]
        /\ UNCHANGED <<raise_when_fail, delay, now, router, bucket>>

\* mutant of retry_bucket: the retry asks the Router for the bucket again
retry_bucket_rerouted(f) == The(router[The(f.item).name])

\* the bucket of the retry put: delay_or_raise's own parameter `bucket`
retry_bucket(f) == The(f.bucket)

\* the wait is over: item.timestamp += delay; re_acquire = bucket.put(item);
\* aw: put answers with an awaitable.  _handle_reacquire follows at once
\* unless it has to read bucket.failing_rate
retry_put(c, aw) ==
    LET f == call[c]
        item == advance_timestamp(The(f.item), The(f.wait))
        r == BucketPut(bucket[retry_bucket(f)], item, c)
        g == [f EXCEPT !.item = Some(item), !.nput = @ + 1,
                       !.deferred = @ \/ aw,
                       !.ownRate = ViolatedBy(bucket[retry_bucket(f)], item),
                       !.answers = Append(@, <<"put", Bit(r.accepted)>>)]
    IN  /\ f.pc = "sleeping"
        /\ now >= f.wakeAt
        /\ ~(aw /\ f.putAsync)
        /\ bucket' = [bucket EXCEPT ![retry_bucket(f)] = r.bucket]
        /\ call' = Disturb([call EXCEPT ![c] =
                        IF r.accepted \/ ~raise_when_fail
                        THEN handle_reacquire_result(g, r.bucket, r.accepted)
                        ELSE [g EXCEPT !.pc = "not_reacquired"]], c)
        /\ UNCHANGED <<raise_when_fail, delay, now, router>>

\* the retry put of a call inside _put_async answers with an awaitable: the
\* coroutine _resolve_re_acquire() is handed on without being awaited, and
\* the put it was to await has run (ran) or never runs
retry_put_unawaited(c, ran) ==
    LET f == call[c]
        item == advance_timestamp(The(f.item), The(f.wait))
        r == BucketPut(bucket[retry_bucket(f)], item, c)
        g == [f EXCEPT !.item = Some(item), !.nput = @ + 1]
    IN  /\ f.pc = "sleeping"
        /\ now >= f.wakeAt
        /\ f.putAsync
        /\ IF ran
           THEN /\ bucket' = [bucket EXCEPT ![retry_bucket(f)] = r.bucket]
                /\ call' = Disturb([call EXCEPT ![c] = unawaited(g)], c)
           ELSE /\ bucket' = bucket
                /\ call' = [call EXCEPT ![c] = unawaited(g)]
        /\ UNCHANGED <<raise_when_fail, delay, now, router>>

\* _handle_reacquire(False) with raise_when_fail: reads bucket.failing_rate
handle_reacquire(c) ==
    LET f == call[c]
    IN  /\ f.pc = "not_reacquired"
        /\ call' = [call EXCEPT ![c] =
              handle_reacquire_result(f, bucket[The(f.bucket)], FALSE)]
        /\ UNCHANGED <<raise_when_fail, delay, now, router, bucket>>

\* the Time Source advances, as long as a call may still read it
Tick ==
    /\ \/ now < MaxNow /\ \E c \in Callers : call[c].pc = "idle"
       \/ \E c \in Callers : call[c].pc = "sleeping" /\ call[c].wakeAt > now
    /\ \E d \in Ticks : now' = now + d
    /\ UNCHANGED <<raise_when_fail, delay, router, bucket, call>>

\* callers are interchangeable: they make their calls in the order of their ids
NextCaller ==
    IF \E c \in Callers : call[c].pc = "idle"
    THEN CHOOSE c \in Callers :
            call[c].pc = "idle" /\ \A d \in Callers : call[d].pc = "idle" => c <= d
    ELSE 0

Next ==
    \/ \E c \in Callers, n \in Names, w \in Weights, aw \in BOOLEAN :
          c = NextCaller /\ try_acquire(c, n, w, aw)
    \/ \E c \in Callers, aw \in BOOLEAN : handle_bucket_put(c, aw)
    \/ \E c \in Callers, aw \in BOOLEAN : delay_or_raise(c, aw)
    \/ \E c \in Callers, aw \in BOOLEAN : retry_put(c, aw)
    \/ \E c \in Callers, ran \in BOOLEAN : retry_put_unawaited(c, ran)
    \/ \E c \in Callers : handle_reacquire(c)
    \/ Tick

Spec == Init /\ [][Next]_vars

\* a call that was made runs on (its thread or task is scheduled again) and
\* the Time Source keeps advancing while a call waits for it
CallerStep(c) ==
    \/ \E aw \in BOOLEAN : handle_bucket_put(c, aw)
    \/ \E aw \in BOOLEAN : delay_or_raise(c, aw)
    \/ \E aw \in BOOLEAN : retry_put(c, aw)
    \/ \E ran \in BOOLEAN : retry_put_unawaited(c, ran)
    \/ handle_reacquire(c)

FairSpec ==
    Spec /\ WF_vars(Tick) /\ \A c \in Callers : WF_vars(CallerStep(c))

\* ------------------------------------------------------------------ Router
\* the Router's background flush reclaims the bucket of a name: flush()
\* clears the instance and the Router puts a fresh instance in its place
Flush(n) ==
    /\ router[n] = Some("b0")
    /\ router' = [router EXCEPT ![n] = Some("b1")]
    /\ bucket' = [bucket EXCEPT !["b0"] = [items |-> << >>, failing_rate |-> None]]
    /\ UNCHANGED <<raise_when_fail, delay, now, call>>

\* callers also ask for names the Router has no bucket for
NextRouter ==
    \/ \E c \in Callers, n \in AllNames, w \in Weights, aw \in BOOLEAN :
          c = NextCaller /\ try_acquire(c, n, w, aw)
    \/ \E c \in Callers : CallerStep(c)
    \/ Tick

SpecRouter == Init /\ [][NextRouter]_vars

\* the flush runs in the background of the calls
NextFlush == Next \/ \E n \in Registered : Flush(n)

SpecFlush == Init /\ [][NextFlush]_vars

\* ------------------------------------------------------ collaborator errors
\* an error of a collaborator (`which`) reaches the Limiter, from the call
\* itself or from the await of its answer: nothing in the Limiter catches it
collaborator_raised(f, which) ==
    raised([f EXCEPT !.failed = which], "CollaboratorError", None)

\* the error sits in an awaitable that is handed on without being awaited
collaborator_unawaited(f, which) == unawaited([f EXCEPT !.failed = which])

\* self.bucket_factory.wrap_item(name, weight) raises (the Time Source failed)
wrap_item_raises(c, name, weight, aw) ==
    /\ call[c].pc = "idle"
    /\ weight > 0
    /\ call' = [call EXCEPT ![c] = collaborator_raised(
                    [@ EXCEPT !.args = Some([name |-> name, weight |-> weight]),
                              !.nwrap = @ + 1, !.deferred = aw], "wrap_item")]
    /\ UNCHANGED <<raise_when_fail, delay, now, router, bucket>>

\* the first bucket.put(item) raises and admits nothing
put_raises(c, aw) ==
    /\ call[c].pc = "put"
    /\ call' = [call EXCEPT ![c] = collaborator_raised(
                    [@ EXCEPT !.nput = @ + 1, !.deferred = @ \/ aw,
                              !.putAsync = aw], "put")]
    /\ UNCHANGED <<raise_when_fail, delay, now, router, bucket>>

\* get_bucket_availability(bucket, item) raises
availability_raises(c, aw) ==
    LET f == call[c]
    IN  /\ f.pc = "rejected"
        /\ delay # None
        /\ call' = [call EXCEPT ![c] =
              IF aw /\ f.putAsync
              THEN collaborator_unawaited(f, "availability")
              ELSE collaborator_raised([f EXCEPT !.deferred = @ \/ aw],
                                       "availability")]
        /\ UNCHANGED <<raise_when_fail, delay, now, router, bucket>>

\* the retry bucket.put(item) raises and admits nothing
retry_put_raises(c, aw) ==
    LET f == call[c]
        item == advance_timestamp(The(f.item), The(f.wait))
        g == [f EXCEPT !.item = Some(item), !.nput = @ + 1]
    IN  /\ f.pc = "sleeping"
        /\ now >= f.wakeAt
        /\ call' = [call EXCEPT ![c] =
              IF aw /\ f.putAsync
              THEN collaborator_unawaited(g, "retry")
              ELSE collaborator_raised([g EXCEPT !.deferred = @ \/ aw], "retry")]
        /\ UNCHANGED <<raise_when_fail, delay, now, router, bucket>>

NextErr ==
    \/ Next
    \/ \E c \in Callers, n \in Names, w \in Weights, aw \in BOOLEAN :
          c = NextCaller /\ wrap_item_raises(c, n, w, aw)
    \/ \E c \in Callers, aw \in BOOLEAN : put_raises(c, aw)
    \/ \E c \in Callers, aw \in BOOLEAN : availability_raises(c, aw)
    \/ \E c \in Callers, aw \in BOOLEAN : retry_put_raises(c, aw)

SpecErr == Init /\ [][NextErr]_vars

\* ------------------------------------------------------------ cancellation
\* mutant of cancelled: the cancellation is noted but the call goes on
cancelled_ignored(f) == [f EXCEPT !.outcome = "CancelledError"]

\* CancelledError is thrown into the coroutine at its await and leaves
\* try_acquire and the wrapper
cancelled(f) == raised(f, "CancelledError", None)

\* the task of a call suspended in `await asyncio.sleep(delay / 1000)` is
\* cancelled (a thread blocked in sleep() cannot be)
Cancel(c) ==
    /\ call[c].pc = "sleeping"
    /\ call[c].sleepKind = "timer"
    /\ call' = [call EXCEPT ![c] = cancelled(@)]
    /\ UNCHANGED <<raise_when_fail, delay, now, router, bucket>>

NextCancel == Next \/ \E c \in Callers : Cancel(c)

SpecCancel == Init /\ [][NextCancel]_vars

\* ------------------------------------------------------------------ claims
Done(c) == call[c].pc = "done"
Called(c) == call[c].pc # "idle"
Weight(c) == The(call[c].args).weight
BucketFull == "BucketFullException"
\* what the raise/return-false policy ends a call with
PolicyOutcome == IF raise_when_fail THEN BucketFull ELSE "false"
\* the weight units in bucket b that caller c's puts added
UnitsBy(b, c) == {i \in DOMAIN bucket[b].items : bucket[b].items[i].by = c}
\* the bucket would reject the item of frame f
Rejects(f) ==
    FirstFailing(bucket[The(f.bucket)].items, The(f.item).timestamp,
                 The(f.item).weight) # 0

C1_CallShape(c) ==
    LET f == call[c]
    IN  /\ f.nput <= 2
        /\ f.nsleep <= 1
        /\ f.nput = 2 => f.nsleep = 1
        /\ f.pc = "done" =>
              f.outcome \in {"true", "false", BucketFull, "AssertionError"}
\* how far a call has come
Rank(pc) ==
    CASE pc = "idle" -> 0 [] pc = "put" -> 1 [] pc = "rejected" -> 2
      [] pc = "sleeping" -> 3 [] pc = "not_reacquired" -> 4 [] pc = "done" -> 5
\* a call under way can take its next step, a waiting one once time has passed
C1_CanGoOn(c) ==
    /\ call[c].pc \in {"put", "rejected", "not_reacquired"} => ENABLED CallerStep(c)
    /\ call[c].pc = "sleeping" => (ENABLED CallerStep(c) \/ ENABLED Tick)
\* C1: within one try_acquire call Bucket.put is invoked at most twice and the
\* wait at most once, a second put only ever follows a wait, a call that has
\* ended ended with true, false or a raised error, and there is no loop: a
\* call under way can always go on and each of its steps takes it further
\* towards its end, never back.
C1_OneRetryCycle ==
    /\ [](\A c \in Callers : C1_CallShape(c) /\ C1_CanGoOn(c))
    /\ [][\A c \in Callers :
            call'[c].pc # call[c].pc => Rank(call'[c].pc) > Rank(call[c].pc)]_vars

C3_Step(c) ==
    LET f == call[c]
        g == call'[c]
        b == The(f.bucket)
    IN  /\ (f.pc = "put" /\ g.pc # "put" /\ Rejects(f)) =>
              /\ g.pc = "rejected" /\ g.nput = 1 /\ g.nsleep = 0
              /\ bucket'[b].items = bucket[b].items
        /\ (f.pc = "rejected" /\ g.pc # "rejected") =>
              /\ g.pc = "done" /\ g.outcome = BucketFull
              /\ g.err = Some([name |-> The(f.args).name,
                               rate |-> The(bucket[b].failing_rate)])
              /\ g.nput = 1 /\ g.nsleep = 0 /\ ~g.funcCalled
              /\ g.item = f.item
              /\ bucket' = bucket
\* C3: with raise_when_fail=true and delay unset, a rejected put leaves the
\* bucket's admitted items as they were and the call then raises
\* BucketFullException(item.name, bucket.failing_rate) after that one put and
\* no wait, the raise leaving the bucket untouched.
C3_RaiseOnReject ==
    [][(raise_when_fail /\ delay = None) => \A c \in Callers : C3_Step(c)]_vars
C3_Witness ==
    \E c \in Callers :
        /\ raise_when_fail /\ delay = None
        /\ Done(c) /\ call[c].outcome = BucketFull /\ call[c].nput = 1
        /\ UnitsBy(The(call[c].bucket), c) = {}

C4_Step(c) ==
    LET f == call[c]
        g == call'[c]
        b == The(f.bucket)
    IN  (f.pc = "put" /\ g.pc # "put" /\ Rejects(f)) =>
            /\ g.pc = "done" /\ g.outcome = "false" /\ g.err = None
            /\ g.nput = 1 /\ g.nsleep = 0 /\ g.wait = None
            /\ g.item = f.item
            /\ bucket'[b].items = bucket[b].items
\* C4: with raise_when_fail=false and delay unset, a rejected put ends the
\* call with false and no error, after that one put and no wait, the bucket's
\* admitted items being what they were before the put.
C4_FalseOnReject ==
    [][(~raise_when_fail /\ delay = None) => \A c \in Callers : C4_Step(c)]_vars
C4_Witness ==
    \E c \in Callers :
        /\ ~raise_when_fail /\ delay = None
        /\ Done(c) /\ call[c].outcome = "false" /\ call[c].nput = 1
        /\ UnitsBy(The(call[c].bucket), c) = {}

\* the item can fit the bucket at all: its weight is within every limit
Fits(item) == \A r \in DOMAIN Rates : item.weight <= Rates[r].limit

\* C5 as stated: a call that found its required wait within the budget and
\* waited returns true, whatever other callers put into the bucket meanwhile.
C5_TrueAfterEveryWait ==
    \A c \in Callers : (Done(c) /\ call[c].nsleep = 1) => call[c].outcome = "true"
\* C5 where no other caller interferes: such a call returns true as soon as
\* its wait is over, provided its item fits the bucket's limits and no other
\* call put into the bucket between this call's rejected put and its retry.
C5_TrueWhenUndisturbed ==
    \A c \in Callers :
        (call[c].nsleep = 1 /\ ~call[c].disturbed /\ Fits(The(call[c].item)))
        => \/ call[c].pc = "sleeping"
           \/ Done(c) /\ call[c].outcome = "true"

Admitted == {c \in Callers : Done(c) /\ call[c].outcome = "true" /\ call[c].item # None}
AdmittedUnits(lo, hi) ==
    Cardinality({i \in UnitsBy("b0", 0) :
                    bucket["b0"].items[i].timestamp > lo
                    /\ bucket["b0"].items[i].timestamp <= hi})
    + Cardinality({ck \in Admitted \X (1..(MaxWeight + 1)) :
                    /\ ck[2] <= The(call[ck[1]].item).weight
                    /\ The(call[ck[1]].item).timestamp > lo
                    /\ The(call[ck[1]].item).timestamp <= hi})
WindowEnds == {0} \cup {The(call[c].item).timestamp : c \in Admitted}
\* C6: the calls that ended with true, together with what the bucket already
\* held, never make up more weight units with timestamps inside one sliding
\* interval than the rate's limit; retried items count at their advanced
\* timestamp.  (Stated for every weight, weight 1 included.)
C6_NoOverAdmission ==
    \A r \in DOMAIN Rates, e \in WindowEnds :
        AdmittedUnits(e - Rates[r].interval, e) <= Rates[r].limit
\* a window is full, one call was turned away and another got in by waiting
C6_Witness ==
    /\ \E r \in DOMAIN Rates, e \in WindowEnds :
          AdmittedUnits(e - Rates[r].interval, e) = Rates[r].limit
    /\ \E c, d \in Callers :
          /\ Done(c) /\ call[c].nput > 0 /\ call[c].outcome # "true"
          /\ d \in Admitted /\ call[d].nsleep = 1

IsPrefix(s, t) == Len(s) <= Len(t) /\ SubSeq(t, 1, Len(s)) = s
\* C7: two calls with the same arguments that got the same collaborator
\* answers, one on the blocking path and one on the suspending path, made
\* the same number of puts, computed the same wait and ended the same way:
\* once a call has ended, no call with the same answers goes on.
C7_SameAcrossDisciplines ==
    \A c, d \in Callers :
        (Done(c) /\ Called(d) /\ call[c].args = call[d].args
            /\ IsPrefix(call[c].answers, call[d].answers))
        => /\ call[d].answers = call[c].answers
           /\ call[d].nput = call[c].nput
           /\ call[d].nsleep = call[c].nsleep
           /\ call[d].wait = call[c].wait
           /\ Done(d) => call[d].outcome = call[c].outcome

\* C8: the wrapped callable is invoked only when try_acquire admitted the
\* request.
C8_FuncOnlyWhenAdmitted ==
    \A c \in Callers : call[c].funcCalled => call[c].outcome = "true"

\* C9: try_acquire with weight 0 returns true, for any bucket state and
\* Limiter configuration, without Router.wrap_item, Router.get, Bucket.put or
\* a wait.
C9_WeightlessAdmitted ==
    \A c \in Callers :
        (Called(c) /\ Weight(c) = 0) =>
            /\ Done(c) /\ call[c].outcome = "true" /\ ~call[c].deferred
            /\ call[c].nwrap = 0 /\ call[c].nget = 0
            /\ call[c].nput = 0 /\ call[c].nsleep = 0
            /\ call[c].answers = << >>
            /\ \A b \in BucketIds : UnitsBy(b, c) = {}
\* a weightless call admitted while the bucket rejects weight 1
C9_Witness ==
    \E c \in Callers :
        /\ Called(c) /\ Weight(c) = 0 /\ call[c].outcome = "true"
        /\ FirstFailing(bucket["b0"].items, now, 1) # 0

\* C10: try_acquire with a negative weight fails with a validation error
\* (not capacity-exceeded, not a boolean) before any Router or Bucket call,
\* whatever raise_when_fail is, and adds nothing to the bucket.
C10_NegativeWeightFails ==
    \A c \in Callers :
        (Called(c) /\ Weight(c) < 0) =>
            /\ Done(c) /\ call[c].outcome = "AssertionError"
            /\ ~call[c].funcCalled
            /\ call[c].nwrap = 0 /\ call[c].nget = 0
            /\ call[c].nput = 0 /\ call[c].nsleep = 0
            /\ call[c].answers = << >>
            /\ \A b \in BucketIds : UnitsBy(b, c) = {}
C10_Witness ==
    \E c \in Callers :
        /\ Called(c) /\ Weight(c) < 0 /\ call[c].outcome = "AssertionError"
        /\ ~raise_when_fail

\* C11: when a call raises capacity-exceeded, the rate carried by the error
\* is the rate that this call's own rejected put violated (the last of them
\* when the retry was rejected too), whatever other callers put into the same
\* bucket between that put and the raise.
C11_ErrorCarriesOwnRate ==
    \A c \in Callers :
        (Done(c) /\ call[c].outcome = BucketFull) =>
            /\ call[c].ownRate # None
            /\ call[c].err = Some([name |-> The(call[c].args).name,
                                   rate |-> The(call[c].ownRate)])

Cancelled(c) == call[c].outcome = "CancelledError"
\* C12: a suspending call cancelled while it waits has made its one,
\* rejected, put and no other: none of its item's units is in any bucket, the
\* item was never advanced, the wrapped callable is not invoked, and after
\* the cancellation the call does nothing more, so other callers find the
\* bucket's admitted items as if the call had never been made.
C12_CancelledAdmitsNothing ==
    /\ [](\A c \in Callers :
            Cancelled(c) =>
                /\ Done(c) /\ call[c].nput = 1 /\ call[c].nsleep = 1
                /\ call[c].answers[1] = <<"put", 0>>
                /\ \A b \in BucketIds : UnitsBy(b, c) = {}
                /\ The(call[c].item).timestamp = The(call[c].stamped)
                /\ ~call[c].funcCalled)
    /\ [][\A c \in Callers :
            /\ Cancelled(c) => call'[c] = call[c]
            /\ (~Cancelled(c) /\ Cancelled(c)') => bucket' = bucket]_vars
\* a call was cancelled after its wait was over, when its retry would have
\* been admitted
C12_Witness ==
    \E c \in Callers :
        /\ Cancelled(c) /\ now >= call[c].wakeAt
        /\ FirstFailing(bucket[The(call[c].bucket)].items,
                        The(call[c].stamped) + The(call[c].wait),
                        The(call[c].item).weight) = 0

C14_CollaboratorErrorPropagates ==
    /\ [](\A c \in Callers :
            call[c].failed # "none" =>
                /\ Done(c) /\ call[c].outcome = "CollaboratorError"
                /\ ~call[c].funcCalled)
    /\ [][\A c \in Callers :
            call[c].failed # "none" => call'[c] = call[c]]_vars

\* C15: a call that handed back a deferred result and waited did so in a
\* timer suspension; the thread-blocking sleep is used only by calls all of
\* whose collaborator answers were immediate.
C15_DeferredWaitsOnTimer ==
    \A c \in Callers :
        (call[c].nsleep = 1 /\ call[c].sleepKind = "thread") => ~call[c].deferred

\* C16: the item of a retry put carries the timestamp wrap_item stamped plus
\* the availability answer plus 50, which is the wait performed, on the
\* blocking and on the suspending path, and the units an accepted put adds
\* carry the item's timestamp; before the retry, and in every call without a
\* wait, the item carries the stamped timestamp.
C16_RetryTimestampAdvanced ==
    \A c \in Callers :
        LET f == call[c]
        IN  f.item # None =>
              /\ f.nput = 2 =>
                    /\ f.nsleep = 1 /\ f.answers[2][1] = "availability"
                    /\ The(f.item).timestamp = The(f.stamped) + f.answers[2][2] + Margin
                    /\ The(f.item).timestamp = The(f.stamped) + The(f.wait)
              /\ f.nput < 2 => The(f.item).timestamp = The(f.stamped)
              /\ \A b \in BucketIds : \A i \in UnitsBy(b, c) :
                    bucket[b].items[i].timestamp = The(f.item).timestamp
\* a blocking and a suspending call both waited and retried, one of them
\* admitted at its advanced timestamp, while the Time Source moved on
C16_Witness ==
    \E c, d \in Callers :
        /\ Done(c) /\ call[c].nput = 2 /\ call[c].sleepKind = "thread"
        /\ Done(d) /\ call[d].nput = 2 /\ call[d].sleepKind = "timer"
        /\ call[c].stamped # call[d].stamped
        /\ \E k \in {c, d} :
              /\ UnitsBy(The(call[k].bucket), k) # {}
              /\ The(call[k].item).timestamp > The(call[k].stamped)

\* C17: a call that waited and issued its retry put ends with what that put
\* answered: true when it was accepted, and per the raise/return-false policy
\* (capacity-exceeded or false) when it was rejected, whatever the budget.
C17_RetryPutDecides ==
    \A c \in Callers :
        (Done(c) /\ call[c].nput = 2) =>
            /\ Len(call[c].answers) = 3 /\ call[c].answers[3][1] = "put"
            /\ call[c].outcome =
                  IF call[c].answers[3][2] = 1 THEN "true" ELSE PolicyOutcome

\* C18: what a call with a positive weight yields, at once or by resolving the
\* one deferred result it handed back, is a plain boolean or a raised error,
\* never another deferred result, for every mix of immediate and deferred
\* collaborator answers; and the result is immediate only when the call got
\* no deferred answer.
C18_OneDeferredResult ==
    \A c \in Callers :
        (Called(c) /\ Weight(c) > 0) =>
            /\ call[c].outcome # "awaitable"
            /\ call[c].putAsync => call[c].deferred

C19_Step(c) ==
    LET f == call[c]
        g == call'[c]
    IN  /\ (f.pc = "idle" /\ g.pc = "put") => g.bucket = router[The(g.args).name]
        /\ f.bucket # None =>
              /\ g.bucket = f.bucket
              /\ g.nwrap = f.nwrap /\ g.nget = f.nget
              /\ g.nput > f.nput =>
                    /\ \A b \in BucketIds \ {The(f.bucket)} : bucket'[b] = bucket[b]
                    /\ (g.outcome = "true" /\ f.outcome = "none") =>
                          \E i \in DOMAIN bucket'[The(f.bucket)].items :
                              bucket'[The(f.bucket)].items[i] =
                                  [timestamp |-> The(g.item).timestamp, by |-> c]
\* C19: a call with a positive weight calls Router.wrap_item once and
\* Router.get once, before its first put; both its puts go to the bucket
\* instance that get returned then and to no other, also when the Router's
\* flush has put another instance in its place since.
C19_RetrySameBucket ==
    /\ [](\A c \in Callers :
            (Called(c) /\ Weight(c) > 0) => call[c].nwrap = 1 /\ call[c].nget = 1)
    /\ [][\A c \in Callers : C19_Step(c)]_vars
\* a call's retry was admitted into the instance that had rejected its first
\* put, which the flush had cleared and replaced in the Router meanwhile
C19_Witness ==
    \E c \in Callers :
        /\ Done(c) /\ call[c].nput = 2 /\ call[c].outcome = "true"
        /\ call[c].bucket = Some("b0") /\ router[The(call[c].args).name] = Some("b1")
        /\ UnitsBy("b0", c) = DOMAIN bucket["b0"].items
        /\ UnitsBy("b0", c) # {}

\* C20: with raise_when_fail = TRUE no call yields false: every call that has
\* ended, whatever the bucket held, the weight, the delay setting and the
\* discipline, ended in true or in a raised error.
C20_TrueOrRaised ==
    \A c \in Callers :
        (raise_when_fail /\ Done(c)) =>
            call[c].outcome \in {"true", BucketFull, "AssertionError"}

====
